---- MODULE Spec2Model ----
(***************************************************************************)
(* The authentication and session lifecycle of runtipi's AuthServiceClass  *)
(* (src/unnamed/part_001), over the user table, the redis cache and the    *)
(* password-change-request file.                                           *)
(*                                                                         *)
(* Every handler is a function Step: (store, request) -> (store, request)  *)
(* that runs the handler from one external call (an await on the user      *)
(* table, the cache or the file system) to the next.  Spec runs a handler  *)
(* from its first line to its return in one action; SpecSteps interleaves  *)
(* the steps of concurrent requests; SpecFaults lets an external call      *)
(* throw.                                                                  *)
(***************************************************************************)
EXTENDS Integers, Sequences, FiniteSets, TLC

VARIABLES
    users,      \* the user table: a sequence of rows, row i has id i
    cache,      \* the redis key space: a function from keys to values
    marker,     \* TRUE iff /runtipi/state/password-change-request exists
    demoMode,   \* TipiConfig.getConfig().demoMode
    nextId,     \* the number of the next uuid that uuidv4() returns
    procs,      \* the requests in flight, one per worker
    started,    \* the number of requests SpecSteps has let in
    config,             \* TipiConfigClass.config
    fileConfigCache,    \* TipiConfigClass.fileConfigCache
    cacheTime,          \* TipiConfigClass.cacheTime
    settingsFile,       \* what /runtipi/state/settings.json holds
    now,                \* Date.now()
    out                 \* the last call of a TipiConfig method and what came of it

authVars == <<users, cache, marker, demoMode, nextId, procs, started>>

tipiVars == <<config, fileConfigCache, cacheTime, settingsFile, now, out>>

vars == <<users, cache, marker, demoMode, nextId, procs, started,
          config, fileConfigCache, cacheTime, settingsFile, now, out>>

\* Bounds of the model.
MaxIds == 3         \* uuids drawn over a run (sessions and challenges)
MaxUsers == 2       \* rows the user table can hold
NumProcs == 2       \* concurrent requests in SpecSteps
MaxRequests == 4    \* requests SpecSteps lets in over a run
MaxTicks == 3       \* steps of the clock over a run of SpecConfig

Procs == 1..NumProcs

(***************************************************************************)
(* Strings of the cache's key space.  A string is the sequence of its      *)
(* ':'-separated parts, each part a pair <<kind, n>>: "session", the       *)
(* decimal of a user id, a uuid, or "otp-<uuid>".  Template literals are   *)
(* concatenations, so two keys are equal iff the strings are.  The empty   *)
(* sequence is the empty string and also stands for null (both falsy).     *)
(***************************************************************************)
Part(kind, n) == << <<kind, n>> >>

uuidv4(n) == Part("uuid", n)

generateSessionId(prefix, n) == Part(prefix, n)

toString(id) == Part("num", id)

\* Number(s): the id a decimal string denotes, 0 (no row) for anything else
Number(s) == IF Len(s) = 1 /\ s[1][1] = "num" THEN s[1][2] ELSE 0

sessionKey(sessionId) == Part("session", 0) \o sessionId

trackingKey(userId, sessionId) == Part("session", 0) \o toString(userId) \o sessionId

trackingPrefix(userId) == Part("session", 0) \o toString(userId)

(***************************************************************************)
(* TipiCache: set, get, del, getByPrefix over one redis key space.         *)
(***************************************************************************)
cacheSet(c, key, val) == [k \in DOMAIN c \cup {key} |-> IF k = key THEN val ELSE c[k]]

cacheGet(c, key) == IF key \in DOMAIN c THEN c[key] ELSE <<>>

cacheDel(c, key) == [k \in DOMAIN c \ {key} |-> c[k]]

startsWith(key, prefix) ==
    /\ Len(key) > Len(prefix)
    /\ SubSeq(key, 1, Len(prefix)) = prefix

RECURSIVE SetToSeq(_)
SetToSeq(S) == IF S = {} THEN <<>>
               ELSE LET x == CHOOSE y \in S : TRUE IN <<x>> \o SetToSeq(S \ {x})

\* the entries whose key starts with `${prefix}:`, as a list of {key, val}
getByPrefix(c, prefix) ==
    SetToSeq({ [key |-> k, val |-> c[k]] : k \in { x \in DOMAIN c : startsWith(x, prefix) } })

(***************************************************************************)
(* Passwords, TOTP seeds and the secret codec.                             *)
(***************************************************************************)
argon2hash(password) == <<"argon2", password>>

argon2verify(hash, password) == hash[1] = "argon2" /\ hash[2] = password

encrypt(secret, salt) == <<"enc", secret, salt>>

\* the empty string when the salt is not the one the seed was encrypted with
decrypt(ciphertext, salt) == IF ciphertext[3] = salt THEN ciphertext[2] ELSE ""

CodeOf(secret) == IF secret = "SEED1" THEN "111111"
                  ELSE IF secret = "SEED2" THEN "222222" ELSE "none"

\* TotpAuthenticator.check within one time step
TotpCheck(totpCode, secret) == totpCode = CodeOf(secret)

(***************************************************************************)
(* Usernames are sequences of characters.                                  *)
(***************************************************************************)
toLowerCase(s) == [i \in 1..Len(s) |->
                      CASE s[i] = "A" -> "a" [] s[i] = "D" -> "d" [] OTHER -> s[i]]

RECURSIVE trimStart(_)
trimStart(s) == IF s # <<>> /\ Head(s) = " " THEN trimStart(Tail(s)) ELSE s

RECURSIVE trimEnd(_)
trimEnd(s) == IF s # <<>> /\ s[Len(s)] = " " THEN trimEnd(SubSeq(s, 1, Len(s) - 1)) ELSE s

trim(s) == trimEnd(trimStart(s))

\* validator.isEmail: local@domain, no blanks, a dotted domain whose last
\* label has two characters or more
isEmail(s) ==
    LET ats == { i \in 1..Len(s) : s[i] = "@" }
        dots == { i \in 1..Len(s) : s[i] = "." }
    IN /\ Cardinality(ats) = 1
       /\ \A i \in 1..Len(s) : s[i] # " "
       /\ LET at == CHOOSE i \in ats : TRUE
          IN /\ at > 1
             /\ \E d \in dots : d > at + 1 /\ d + 2 <= Len(s)
             /\ \A d \in dots : d > at => (d # Len(s) /\ d + 1 \notin dots /\ d # at + 1)

(***************************************************************************)
(* AuthQueries over the user table.  An absent row is <<>>, a row found    *)
(* is <<row>>.                                                             *)
(***************************************************************************)
getUserById(u, id) == IF id \in 1..Len(u) THEN <<u[id]>> ELSE <<>>

getUserByUsername(u, username) ==
    LET ids == { i \in 1..Len(u) : u[i].username = username }
    IN IF ids = {} THEN <<>>
       ELSE getUserById(u, CHOOSE i \in ids : \A j \in ids : i <= j)

getOperators(u) == { i \in 1..Len(u) : u[i].operator }

getFirstOperator(u) ==
    IF getOperators(u) = {} THEN <<>>
    ELSE getUserById(u, CHOOSE i \in getOperators(u) : \A j \in getOperators(u) : i <= j)

\* the table after INSERT: the new row gets the next serial id
createUser(u, username, hash) ==
    Append(u, [id |-> Len(u) + 1, username |-> username, password |-> hash,
               totpEnabled |-> FALSE, totpSecret |-> <<>>, salt |-> "",
               operator |-> TRUE])

\* the table after UPDATE ... SET fields WHERE id
updateUser(u, id, fields) ==
    [i \in 1..Len(u) |->
        IF i = id
        THEN [f \in DOMAIN u[i] |-> IF f \in DOMAIN fields THEN fields[f] ELSE u[i][f]]
        ELSE u[i]]

\* the unique constraint on username: another row already holds it
usernameTaken(u, id, username) == \E i \in 1..Len(u) : i # id /\ u[i].username = username

(***************************************************************************)
(* A request: the handler it runs (op), its parameters (arg), the place    *)
(* it has reached (pc, named after the source line of the external call    *)
(* that comes next), the handler's local variables, and what it returned   *)
(* or threw (res).  mutated records that one of its steps changed the      *)
(* user table, the cache or the marker; pre is the store as it was when    *)
(* the handler was called (kept where a handler runs in one action); seen  *)
(* records, of the entries the sweep enumerated, the session keys that     *)
(* were in the cache at that moment.                                       *)
(***************************************************************************)
NoRes == [kind |-> "none", err |-> "", id |-> <<>>]

Idle == [pc |-> "idle", op |-> "none", arg |-> <<>>, user |-> <<>>, uid |-> <<>>, sid |-> <<>>,
         secret |-> "", salt |-> "", list |-> <<>>, i |-> 0, skip |-> {}, seen |-> {},
         res |-> NoRes, mutated |-> FALSE, pre |-> <<>>]

NewRequest(op, arg, pc) == [Idle EXCEPT !.op = op, !.arg = arg, !.pc = pc]

Goto(st, pr, pc) == [st |-> st, pr |-> [pr EXCEPT !.pc = pc]]

Return(st, pr, kind, id) ==
    [st |-> st, pr |-> [pr EXCEPT !.pc = "done", !.res = [kind |-> kind, err |-> "", id |-> id]]]

Throw(st, pr, err) ==
    [st |-> st, pr |-> [pr EXCEPT !.pc = "done", !.res = [kind |-> "error", err |-> err, id |-> <<>>]]]

\* no uuid is left to draw: the request waits
Stuck(st, pr) == [st |-> st, pr |-> [pr EXCEPT !.pc = "stuck"]]

(***************************************************************************)
(* setSession(sessionId, userId): the tracking key, then the session key.  *)
(* The tracking key's value is the key of the session entry, which is      *)
(* what destroyAllSessionsByUserId passes to cache.del.                    *)
(***************************************************************************)
setSession(st, pr, o) ==
    IF o.fail THEN Throw(st, pr, "infra")
    ELSE IF pr.pc = "setSession:1"
    THEN Goto([st EXCEPT !.cache = cacheSet(@, trackingKey(pr.user[1].id, pr.sid), sessionKey(pr.sid))],
              pr, "setSession:2")
    ELSE LET st2 == [st EXCEPT !.cache = cacheSet(@, sessionKey(pr.sid), toString(pr.user[1].id))]
         IN IF pr.op = "login" THEN Return(st2, pr, "sessionId", pr.sid)
            ELSE Return(st2, pr, "true", <<>>)

\* const sessionId = uuidv4(), then on to setSession
NewSession(st, pr, user) ==
    IF st.nextId > MaxIds THEN Stuck(st, pr)
    ELSE Goto([st EXCEPT !.nextId = @ + 1],
              [pr EXCEPT !.user = user, !.sid = uuidv4(st.nextId)], "setSession:1")

\* a variant that asks every user for the second factor
secondFactorRequired_always(user) == TRUE

\* line 47: the second factor is asked for
secondFactorRequired(user) == user.totpEnabled

\* a variant of login that files the challenge under session:<id>
login_challengeAsSession(st, pr, o) ==
    IF pr.pc = "login:35"
    THEN IF o.fail THEN Throw(st, pr, "infra")
         ELSE LET user == getUserByUsername(st.users, pr.arg.username)
         IN IF user = <<>> THEN Throw(st, pr, "user-not-found")
            ELSE IF ~argon2verify(user[1].password, pr.arg.password)
            THEN Throw(st, pr, "invalid-credentials")
            ELSE IF secondFactorRequired(user[1])
            THEN Goto(st, [pr EXCEPT !.user = user], "login:50")
            ELSE NewSession(st, pr, user)
    ELSE IF pr.pc = "login:50"
    THEN IF st.nextId > MaxIds THEN Stuck(st, pr)
         ELSE IF o.fail THEN Throw(st, pr, "infra")
         ELSE LET totpSessionId == generateSessionId("otp", st.nextId)
              IN Return([st EXCEPT !.nextId = @ + 1,
                                   !.cache = cacheSet(@, sessionKey(totpSessionId),
                                                      toString(pr.user[1].id))],
                        pr, "totpSessionId", totpSessionId)
    ELSE setSession(st, pr, o)

login(st, pr, o) ==
    IF pr.pc = "login:35"
    THEN IF o.fail THEN Throw(st, pr, "infra")
         ELSE LET user == getUserByUsername(st.users, pr.arg.username)
         IN IF user = <<>> THEN Throw(st, pr, "user-not-found")
            ELSE IF ~argon2verify(user[1].password, pr.arg.password)
            THEN Throw(st, pr, "invalid-credentials")
            ELSE IF secondFactorRequired(user[1])
            THEN Goto(st, [pr EXCEPT !.user = user], "login:50")
            ELSE NewSession(st, pr, user)
    ELSE IF pr.pc = "login:50"
    THEN IF st.nextId > MaxIds THEN Stuck(st, pr)
         ELSE IF o.fail THEN Throw(st, pr, "infra")
         ELSE LET totpSessionId == generateSessionId("otp", st.nextId)
              IN Return([st EXCEPT !.nextId = @ + 1,
                                   !.cache = cacheSet(@, totpSessionId, toString(pr.user[1].id))],
                        pr, "totpSessionId", totpSessionId)
    ELSE setSession(st, pr, o)

\* a variant of verifyTotp that asks for a stored seed only, not for totpEnabled
verifyTotp_seedOnly(st, pr, o) ==
    IF pr.pc = "verifyTotp:71"
    THEN IF o.fail THEN Throw(st, pr, "infra")
         ELSE LET userId == cacheGet(st.cache, pr.arg.totpSessionId)
         IN IF userId = <<>> THEN Throw(st, pr, "totp-session-not-found")
            ELSE Goto(st, [pr EXCEPT !.uid = userId], "verifyTotp:78")
    ELSE IF pr.pc = "verifyTotp:78"
    THEN IF o.fail THEN Throw(st, pr, "infra")
         ELSE LET user == getUserById(st.users, Number(pr.uid))
         IN IF user = <<>> THEN Throw(st, pr, "user-not-found")
            ELSE IF user[1].totpSecret = <<>> \/ user[1].salt = ""
            THEN Throw(st, pr, "totp-not-enabled")
            ELSE IF ~TotpCheck(pr.arg.totpCode, decrypt(user[1].totpSecret, user[1].salt))
            THEN Throw(st, pr, "totp-invalid-code")
            ELSE NewSession(st, pr, user)
    ELSE setSession(st, pr, o)

verifyTotp(st, pr, o) ==
    IF pr.pc = "verifyTotp:71"
    THEN IF o.fail THEN Throw(st, pr, "infra")
         ELSE LET userId == cacheGet(st.cache, pr.arg.totpSessionId)
         IN IF userId = <<>> THEN Throw(st, pr, "totp-session-not-found")
            ELSE Goto(st, [pr EXCEPT !.uid = userId], "verifyTotp:78")
    ELSE IF pr.pc = "verifyTotp:78"
    THEN IF o.fail THEN Throw(st, pr, "infra")
         ELSE LET user == getUserById(st.users, Number(pr.uid))
         IN IF user = <<>> THEN Throw(st, pr, "user-not-found")
            ELSE IF ~user[1].totpEnabled \/ user[1].totpSecret = <<>> \/ user[1].salt = ""
            THEN Throw(st, pr, "totp-not-enabled")
            ELSE IF ~TotpCheck(pr.arg.totpCode, decrypt(user[1].totpSecret, user[1].salt))
            THEN Throw(st, pr, "totp-invalid-code")
            ELSE NewSession(st, pr, user)
    ELSE setSession(st, pr, o)

\* a variant of getTotpUri that draws a new salt whether or not one is stored
getTotpUri_freshSalt(st, pr, o) ==
    IF pr.pc = "getTotpUri:115"
    THEN IF st.demoMode THEN Throw(st, pr, "not-allowed-in-demo")
         ELSE IF o.fail THEN Throw(st, pr, "infra")
         ELSE LET user == getUserById(st.users, pr.arg.userId)
         IN IF user = <<>> THEN Throw(st, pr, "user-not-found")
            ELSE IF ~argon2verify(user[1].password, pr.arg.password)
            THEN Throw(st, pr, "invalid-password")
            ELSE IF user[1].totpEnabled THEN Throw(st, pr, "totp-already-enabled")
            ELSE Goto(st, [pr EXCEPT !.user = user, !.secret = o.secret, !.salt = o.salt],
                      "getTotpUri:139")
    ELSE IF o.fail THEN Throw(st, pr, "infra")
    ELSE Return([st EXCEPT !.users = updateUser(@, pr.arg.userId,
                                [totpSecret |-> encrypt(pr.secret, pr.salt), salt |-> pr.salt])],
                pr, "uri", <<>>)

\* a variant of getTotpUri that looks at demoMode after the user and the
\* password have been checked
getTotpUri_lateDemoCheck(st, pr, o) ==
    IF pr.pc = "getTotpUri:115"
    THEN IF o.fail THEN Throw(st, pr, "infra")
         ELSE LET user == getUserById(st.users, pr.arg.userId)
         IN IF user = <<>> THEN Throw(st, pr, "user-not-found")
            ELSE IF ~argon2verify(user[1].password, pr.arg.password)
            THEN Throw(st, pr, "invalid-password")
            ELSE IF st.demoMode THEN Throw(st, pr, "not-allowed-in-demo")
            ELSE IF user[1].totpEnabled THEN Throw(st, pr, "totp-already-enabled")
            ELSE Goto(st, [pr EXCEPT !.user = user, !.secret = o.secret,
                                     !.salt = IF user[1].salt = "" THEN o.salt ELSE user[1].salt],
                      "getTotpUri:139")
    ELSE IF o.fail THEN Throw(st, pr, "infra")
    ELSE Return([st EXCEPT !.users = updateUser(@, pr.arg.userId,
                                [totpSecret |-> encrypt(pr.secret, pr.salt), salt |-> pr.salt])],
                pr, "uri", <<>>)

getTotpUri(st, pr, o) ==
    IF pr.pc = "getTotpUri:115"
    THEN IF st.demoMode THEN Throw(st, pr, "not-allowed-in-demo")
         ELSE IF o.fail THEN Throw(st, pr, "infra")
         ELSE LET user == getUserById(st.users, pr.arg.userId)
         IN IF user = <<>> THEN Throw(st, pr, "user-not-found")
            ELSE IF ~argon2verify(user[1].password, pr.arg.password)
            THEN Throw(st, pr, "invalid-password")
            ELSE IF user[1].totpEnabled THEN Throw(st, pr, "totp-already-enabled")
            ELSE Goto(st, [pr EXCEPT !.user = user, !.secret = o.secret,
                                     !.salt = IF user[1].salt = "" THEN o.salt ELSE user[1].salt],
                      "getTotpUri:139")
    ELSE IF o.fail THEN Throw(st, pr, "infra")
    ELSE Return([st EXCEPT !.users = updateUser(@, pr.arg.userId,
                                [totpSecret |-> encrypt(pr.secret, pr.salt), salt |-> pr.salt])],
                pr, "uri", <<>>)

\* a variant of setupTotp that does not check the code
setupTotp_anyCode(st, pr, o) ==
    IF pr.pc = "setupTotp:152"
    THEN IF st.demoMode THEN Throw(st, pr, "not-allowed-in-demo")
         ELSE IF o.fail THEN Throw(st, pr, "infra")
         ELSE LET user == getUserById(st.users, pr.arg.userId)
         IN IF user = <<>> THEN Throw(st, pr, "user-not-found")
            ELSE IF user[1].totpEnabled \/ user[1].totpSecret = <<>> \/ user[1].salt = ""
            THEN Throw(st, pr, "totp-already-enabled")
            ELSE Goto(st, [pr EXCEPT !.user = user], "setupTotp:169")
    ELSE IF o.fail THEN Throw(st, pr, "infra")
    ELSE Return([st EXCEPT !.users = updateUser(@, pr.arg.userId, [totpEnabled |-> TRUE])],
                pr, "true", <<>>)

setupTotp(st, pr, o) ==
    IF pr.pc = "setupTotp:152"
    THEN IF st.demoMode THEN Throw(st, pr, "not-allowed-in-demo")
         ELSE IF o.fail THEN Throw(st, pr, "infra")
         ELSE LET user == getUserById(st.users, pr.arg.userId)
         IN IF user = <<>> THEN Throw(st, pr, "user-not-found")
            ELSE IF user[1].totpEnabled \/ user[1].totpSecret = <<>> \/ user[1].salt = ""
            THEN Throw(st, pr, "totp-already-enabled")
            ELSE IF ~TotpCheck(pr.arg.totpCode, decrypt(user[1].totpSecret, user[1].salt))
            THEN Throw(st, pr, "totp-invalid-code")
            ELSE Goto(st, [pr EXCEPT !.user = user], "setupTotp:169")
    ELSE IF o.fail THEN Throw(st, pr, "infra")
    ELSE Return([st EXCEPT !.users = updateUser(@, pr.arg.userId, [totpEnabled |-> TRUE])],
                pr, "true", <<>>)

\* a variant of disableTotp that checks the password before totpEnabled
disableTotp_passwordFirst(st, pr, o) ==
    IF pr.pc = "disableTotp:177"
    THEN IF o.fail THEN Throw(st, pr, "infra")
         ELSE LET user == getUserById(st.users, pr.arg.userId)
         IN IF user = <<>> THEN Throw(st, pr, "user-not-found")
            ELSE IF ~argon2verify(user[1].password, pr.arg.password)
            THEN Throw(st, pr, "invalid-password")
            ELSE IF ~user[1].totpEnabled THEN Throw(st, pr, "totp-not-enabled")
            ELSE Goto(st, [pr EXCEPT !.user = user], "disableTotp:192")
    ELSE IF o.fail THEN Throw(st, pr, "infra")
    ELSE Return([st EXCEPT !.users = updateUser(@, pr.arg.userId,
                                [totpEnabled |-> FALSE, totpSecret |-> <<>>])],
                pr, "true", <<>>)

disableTotp(st, pr, o) ==
    IF pr.pc = "disableTotp:177"
    THEN IF o.fail THEN Throw(st, pr, "infra")
         ELSE LET user == getUserById(st.users, pr.arg.userId)
         IN IF user = <<>> THEN Throw(st, pr, "user-not-found")
            ELSE IF ~user[1].totpEnabled THEN Throw(st, pr, "totp-not-enabled")
            ELSE IF ~argon2verify(user[1].password, pr.arg.password)
            THEN Throw(st, pr, "invalid-password")
            ELSE Goto(st, [pr EXCEPT !.user = user], "disableTotp:192")
    ELSE IF o.fail THEN Throw(st, pr, "infra")
    ELSE Return([st EXCEPT !.users = updateUser(@, pr.arg.userId,
                                [totpEnabled |-> FALSE, totpSecret |-> <<>>])],
                pr, "true", <<>>)

\* a variant that closes registration at the second operator only
adminAlreadyExists_two(operators) == Cardinality(operators) > 1

\* line 205: registration is closed
adminAlreadyExists(operators) == Cardinality(operators) > 0

register(st, pr, o) ==
    LET email == toLowerCase(trim(pr.arg.username)) IN
    IF pr.pc = "register:203"
    THEN IF o.fail THEN Throw(st, pr, "infra")
         ELSE IF adminAlreadyExists(getOperators(st.users))
         THEN Throw(st, pr, "admin-already-exists")
         ELSE IF pr.arg.username = <<>> \/ pr.arg.password = ""
         THEN Throw(st, pr, "missing-email-or-password")
         ELSE IF Len(pr.arg.username) < 3 \/ ~isEmail(email) THEN Throw(st, pr, "invalid-username")
         ELSE Goto(st, pr, "register:220")
    ELSE IF pr.pc = "register:220"
    THEN IF o.fail THEN Throw(st, pr, "infra")
         ELSE IF getUserByUsername(st.users, email) # <<>> THEN Throw(st, pr, "user-already-exists")
         ELSE Goto(st, pr, "register:228")
    ELSE IF pr.pc = "register:228"
    THEN IF Len(st.users) >= MaxUsers THEN Stuck(st, pr)
         ELSE IF o.fail \/ usernameTaken(st.users, 0, email) THEN Throw(st, pr, "infra")
         ELSE LET table == createUser(st.users, email, argon2hash(pr.arg.password))
              IN NewSession([st EXCEPT !.users = table], pr, <<table[Len(table)]>>)
    ELSE setSession(st, pr, o)

\* a variant of logout that drops every key of the cache
logout_flush(st, pr, o) ==
    IF o.fail THEN Throw(st, pr, "infra")
    ELSE Return([st EXCEPT !.cache = <<>>], pr, "true", <<>>)

logout(st, pr, o) ==
    IF o.fail THEN Throw(st, pr, "infra")
    ELSE Return([st EXCEPT !.cache = cacheDel(@, sessionKey(pr.arg.sessionId))], pr, "true", <<>>)

\* a variant that finds a reset request pending whatever the file system says
checkPasswordChangeRequest_always(st) == TRUE

\* lines 314-320: the marker file exists
checkPasswordChangeRequest(st) == st.marker

\* a variant of changeOperatorPassword that deletes the marker file before it
\* stores the new password
changeOperatorPassword_unlinkFirst(st, pr, o) ==
    IF pr.pc = "changeOperatorPassword:287"
    THEN IF ~checkPasswordChangeRequest(st) THEN Throw(st, pr, "no-change-password-request")
         ELSE Goto(st, pr, "changeOperatorPassword:293")
    ELSE IF pr.pc = "changeOperatorPassword:293"
    THEN IF o.fail THEN Throw(st, pr, "infra")
         ELSE LET user == getFirstOperator(st.users)
         IN IF user = <<>> THEN Throw(st, pr, "operator-not-found")
            ELSE Goto(st, [pr EXCEPT !.user = user], "changeOperatorPassword:301")
    ELSE IF pr.pc = "changeOperatorPassword:301"
    THEN IF o.fail \/ ~st.marker THEN Throw(st, pr, "infra")
         ELSE Goto([st EXCEPT !.marker = FALSE], pr, "changeOperatorPassword:303")
    ELSE IF o.fail THEN Throw(st, pr, "infra")
    ELSE Return([st EXCEPT !.users = updateUser(@, pr.user[1].id,
                              [password |-> argon2hash(pr.arg.newPassword),
                               totpEnabled |-> FALSE, totpSecret |-> <<>>])],
                pr, "email", <<>>)

changeOperatorPassword(st, pr, o) ==
    IF pr.pc = "changeOperatorPassword:287"
    THEN IF ~checkPasswordChangeRequest(st) THEN Throw(st, pr, "no-change-password-request")
         ELSE Goto(st, pr, "changeOperatorPassword:293")
    ELSE IF pr.pc = "changeOperatorPassword:293"
    THEN IF o.fail THEN Throw(st, pr, "infra")
         ELSE LET user == getFirstOperator(st.users)
         IN IF user = <<>> THEN Throw(st, pr, "operator-not-found")
            ELSE Goto(st, [pr EXCEPT !.user = user], "changeOperatorPassword:301")
    ELSE IF pr.pc = "changeOperatorPassword:301"
    THEN IF o.fail THEN Throw(st, pr, "infra")
         ELSE Goto([st EXCEPT !.users = updateUser(@, pr.user[1].id,
                              [password |-> argon2hash(pr.arg.newPassword),
                               totpEnabled |-> FALSE, totpSecret |-> <<>>])],
                   pr, "changeOperatorPassword:303")
    \* unlinkFile rejects when the file is no longer there
    ELSE IF o.fail \/ ~st.marker THEN Throw(st, pr, "infra")
    ELSE Return([st EXCEPT !.marker = FALSE], pr, "email", <<>>)

\* the session keys the enumerated entries point to that are in the cache
Targets(c, sessions) ==
    { sessions[j].val : j \in { k \in 1..Len(sessions) : sessions[k].val \in DOMAIN c } }

\* a variant of the sweep that stops at the first del that rejects, as a
\* sequential loop over the entries would
destroyAllSessionsByUserId_abort(st, pr, o) ==
    LET n == Len(pr.list)
        next(s, r) == IF r.i >= 2 * n THEN Return(s, r, "true", <<>>)
                      ELSE Goto(s, [r EXCEPT !.i = @ + 1], r.pc)
    IN IF pr.pc = "destroyAllSessionsByUserId:343"
       THEN IF o.fail THEN Throw(st, pr, "infra")
            ELSE LET sessions == getByPrefix(st.cache, trackingPrefix(pr.user[1].id))
                 IN IF sessions = <<>> THEN Return(st, pr, "true", <<>>)
                    ELSE Goto(st, [pr EXCEPT !.list = sessions, !.i = 1,
                                             !.seen = Targets(st.cache, sessions)],
                              "destroyAllSessionsByUserId:347")
       ELSE IF o.fail THEN Throw(st, [pr EXCEPT !.skip = @ \cup {pr.i}], "infra")
       ELSE IF pr.i <= n
       THEN next([st EXCEPT !.cache = cacheDel(@, pr.list[pr.i].key)], pr)
       ELSE IF pr.list[pr.i - n].val = <<>> THEN next(st, pr)
       ELSE next([st EXCEPT !.cache = cacheDel(@, pr.list[pr.i - n].val)], pr)

\* a variant of the sweep that deletes the tracking keys only
destroyAllSessionsByUserId_keysOnly(st, pr, o) ==
    LET n == Len(pr.list)
        finish(s, r) == IF r.skip = {} THEN Return(s, r, "true", <<>>) ELSE Throw(s, r, "infra")
        next(s, r) == IF r.i >= n THEN finish(s, r) ELSE Goto(s, [r EXCEPT !.i = @ + 1], r.pc)
    IN IF pr.pc = "destroyAllSessionsByUserId:343"
       THEN IF o.fail THEN Throw(st, pr, "infra")
            ELSE LET sessions == getByPrefix(st.cache, trackingPrefix(pr.user[1].id))
                 IN IF sessions = <<>> THEN Return(st, pr, "true", <<>>)
                    ELSE Goto(st, [pr EXCEPT !.list = sessions, !.i = 1,
                                             !.seen = Targets(st.cache, sessions)],
                              "destroyAllSessionsByUserId:347")
       ELSE IF o.fail THEN next(st, [pr EXCEPT !.skip = @ \cup {pr.i}])
       ELSE next([st EXCEPT !.cache = cacheDel(@, pr.list[pr.i].key)], pr)

\* a variant of the sweep that takes a tracking key whose session entry is
\* gone for an error
destroyAllSessionsByUserId_strict(st, pr, o) ==
    LET n == Len(pr.list)
        finish(s, r) == IF r.skip = {} THEN Return(s, r, "true", <<>>) ELSE Throw(s, r, "infra")
        next(s, r) == IF r.i >= 2 * n THEN finish(s, r) ELSE Goto(s, [r EXCEPT !.i = @ + 1], r.pc)
    IN IF pr.pc = "destroyAllSessionsByUserId:343"
       THEN IF o.fail THEN Throw(st, pr, "infra")
            ELSE LET sessions == getByPrefix(st.cache, trackingPrefix(pr.user[1].id))
                 IN IF sessions = <<>> THEN Return(st, pr, "true", <<>>)
                    ELSE Goto(st, [pr EXCEPT !.list = sessions, !.i = 1,
                                             !.seen = Targets(st.cache, sessions)],
                              "destroyAllSessionsByUserId:347")
       ELSE IF o.fail THEN next(st, [pr EXCEPT !.skip = @ \cup {pr.i}])
       ELSE IF pr.i <= n
       THEN next([st EXCEPT !.cache = cacheDel(@, pr.list[pr.i].key)], pr)
       ELSE IF (pr.i - n) \in pr.skip \/ pr.list[pr.i - n].val = <<>> THEN next(st, pr)
       ELSE IF pr.list[pr.i - n].val \notin DOMAIN st.cache
       THEN next(st, [pr EXCEPT !.skip = @ \cup {pr.i}])
       ELSE next([st EXCEPT !.cache = cacheDel(@, pr.list[pr.i - n].val)], pr)

\* a variant of the sweep that deletes nothing
destroyAllSessionsByUserId_none(st, pr, o) == Return(st, pr, "true", <<>>)

(***************************************************************************)
(* destroyAllSessionsByUserId: the entries under `session:${userId}:` are  *)
(* listed, then one callback per entry deletes entry.key and, after it,    *)
(* entry.val.  The callbacks share one connection, which carries their     *)
(* commands in the order they were issued: every del(key), then every      *)
(* del(val).  A del that rejects ends its own callback only (skip); the    *)
(* handler then throws and the cache is not closed.                        *)
(***************************************************************************)
destroyAllSessionsByUserId(st, pr, o) ==
    LET n == Len(pr.list)
        finish(s, r) == IF r.skip = {} THEN Return(s, r, "true", <<>>) ELSE Throw(s, r, "infra")
        next(s, r) == IF r.i >= 2 * n THEN finish(s, r) ELSE Goto(s, [r EXCEPT !.i = @ + 1], r.pc)
    IN IF pr.pc = "destroyAllSessionsByUserId:343"
       THEN IF o.fail THEN Throw(st, pr, "infra")
            ELSE LET sessions == getByPrefix(st.cache, trackingPrefix(pr.user[1].id))
                 IN IF sessions = <<>> THEN Return(st, pr, "true", <<>>)
                    ELSE Goto(st, [pr EXCEPT !.list = sessions, !.i = 1,
                                             !.seen = Targets(st.cache, sessions)],
                              "destroyAllSessionsByUserId:347")
       ELSE IF o.fail THEN next(st, [pr EXCEPT !.skip = @ \cup {pr.i}])
       ELSE IF pr.i <= n
       THEN next([st EXCEPT !.cache = cacheDel(@, pr.list[pr.i].key)], pr)
       ELSE IF (pr.i - n) \in pr.skip \/ pr.list[pr.i - n].val = <<>> THEN next(st, pr)
       ELSE next([st EXCEPT !.cache = cacheDel(@, pr.list[pr.i - n].val)], pr)

\* a variant of changePassword that checks the length of the new password
\* after the hash is stored
changePassword_lateLengthCheck(st, pr, o) ==
    IF pr.pc = "changePassword:360"
    THEN IF st.demoMode THEN Throw(st, pr, "not-allowed-in-demo")
         ELSE IF o.fail THEN Throw(st, pr, "infra")
         ELSE LET user == getUserById(st.users, pr.arg.userId)
         IN IF user = <<>> THEN Throw(st, pr, "user-not-found")
            ELSE IF ~argon2verify(user[1].password, pr.arg.currentPassword)
            THEN Throw(st, pr, "invalid-password")
            ELSE Goto(st, [pr EXCEPT !.user = user], "changePassword:377")
    ELSE IF pr.pc = "changePassword:377"
    THEN IF o.fail THEN Throw(st, pr, "infra")
         ELSE LET st2 == [st EXCEPT !.users = updateUser(@, pr.user[1].id,
                                       [password |-> argon2hash(pr.arg.newPassword)])]
              IN IF Len(pr.arg.newPassword) < 8 THEN Throw(st2, pr, "invalid-password-length")
                 ELSE Goto(st2, pr, "destroyAllSessionsByUserId:343")
    ELSE destroyAllSessionsByUserId(st, pr, o)

changePassword(st, pr, o) ==
    IF pr.pc = "changePassword:360"
    THEN IF st.demoMode THEN Throw(st, pr, "not-allowed-in-demo")
         ELSE IF o.fail THEN Throw(st, pr, "infra")
         ELSE LET user == getUserById(st.users, pr.arg.userId)
         IN IF user = <<>> THEN Throw(st, pr, "user-not-found")
            ELSE IF ~argon2verify(user[1].password, pr.arg.currentPassword)
            THEN Throw(st, pr, "invalid-password")
            ELSE IF Len(pr.arg.newPassword) < 8 THEN Throw(st, pr, "invalid-password-length")
            ELSE Goto(st, [pr EXCEPT !.user = user], "changePassword:377")
    ELSE IF pr.pc = "changePassword:377"
    THEN IF o.fail THEN Throw(st, pr, "infra")
         ELSE Goto([st EXCEPT !.users = updateUser(@, pr.user[1].id,
                              [password |-> argon2hash(pr.arg.newPassword)])],
                   pr, "destroyAllSessionsByUserId:343")
    ELSE destroyAllSessionsByUserId(st, pr, o)

\* a variant of changeUsername that does not look the new username up
changeUsername_noLookup(st, pr, o) ==
    LET email == toLowerCase(trim(pr.arg.newUsername)) IN
    IF pr.pc = "changeUsername:392"
    THEN IF st.demoMode THEN Throw(st, pr, "not-allowed-in-demo")
         ELSE IF o.fail THEN Throw(st, pr, "infra")
         ELSE LET user == getUserById(st.users, pr.arg.userId)
         IN IF user = <<>> THEN Throw(st, pr, "user-not-found")
            ELSE IF ~argon2verify(user[1].password, pr.arg.password)
            THEN Throw(st, pr, "invalid-password")
            ELSE IF ~isEmail(email) THEN Throw(st, pr, "invalid-username")
            ELSE Goto(st, [pr EXCEPT !.user = user], "changeUsername:410")
    ELSE IF pr.pc = "changeUsername:410"
    THEN IF o.fail THEN Throw(st, pr, "infra")
         ELSE Goto(st, pr, "changeUsername:416")
    ELSE IF pr.pc = "changeUsername:416"
    THEN IF o.fail \/ usernameTaken(st.users, pr.user[1].id, email) THEN Throw(st, pr, "infra")
         ELSE Goto([st EXCEPT !.users = updateUser(@, pr.user[1].id, [username |-> email])],
                   pr, "destroyAllSessionsByUserId:343")
    ELSE destroyAllSessionsByUserId(st, pr, o)

\* a variant of changeUsername that stores the username as it was given
changeUsername_rawUsername(st, pr, o) ==
    LET email == toLowerCase(trim(pr.arg.newUsername)) IN
    IF pr.pc = "changeUsername:392"
    THEN IF st.demoMode THEN Throw(st, pr, "not-allowed-in-demo")
         ELSE IF o.fail THEN Throw(st, pr, "infra")
         ELSE LET user == getUserById(st.users, pr.arg.userId)
         IN IF user = <<>> THEN Throw(st, pr, "user-not-found")
            ELSE IF ~argon2verify(user[1].password, pr.arg.password)
            THEN Throw(st, pr, "invalid-password")
            ELSE IF ~isEmail(email) THEN Throw(st, pr, "invalid-username")
            ELSE Goto(st, [pr EXCEPT !.user = user], "changeUsername:410")
    ELSE IF pr.pc = "changeUsername:410"
    THEN IF o.fail THEN Throw(st, pr, "infra")
         ELSE IF getUserByUsername(st.users, email) # <<>> THEN Throw(st, pr, "user-already-exists")
         ELSE Goto(st, pr, "changeUsername:416")
    ELSE IF pr.pc = "changeUsername:416"
    THEN IF o.fail \/ usernameTaken(st.users, pr.user[1].id, pr.arg.newUsername)
         THEN Throw(st, pr, "infra")
         ELSE Goto([st EXCEPT !.users = updateUser(@, pr.user[1].id,
                                                   [username |-> pr.arg.newUsername])],
                   pr, "destroyAllSessionsByUserId:343")
    ELSE destroyAllSessionsByUserId(st, pr, o)

\* a variant of changeUsername whose lookup leaves the caller's own row out
changeUsername_excludeSelf(st, pr, o) ==
    LET email == toLowerCase(trim(pr.arg.newUsername)) IN
    IF pr.pc = "changeUsername:392"
    THEN IF st.demoMode THEN Throw(st, pr, "not-allowed-in-demo")
         ELSE IF o.fail THEN Throw(st, pr, "infra")
         ELSE LET user == getUserById(st.users, pr.arg.userId)
         IN IF user = <<>> THEN Throw(st, pr, "user-not-found")
            ELSE IF ~argon2verify(user[1].password, pr.arg.password)
            THEN Throw(st, pr, "invalid-password")
            ELSE IF ~isEmail(email) THEN Throw(st, pr, "invalid-username")
            ELSE Goto(st, [pr EXCEPT !.user = user], "changeUsername:410")
    ELSE IF pr.pc = "changeUsername:410"
    THEN IF o.fail THEN Throw(st, pr, "infra")
         ELSE IF usernameTaken(st.users, pr.user[1].id, email)
         THEN Throw(st, pr, "user-already-exists")
         ELSE Goto(st, pr, "changeUsername:416")
    ELSE IF pr.pc = "changeUsername:416"
    THEN IF o.fail \/ usernameTaken(st.users, pr.user[1].id, email) THEN Throw(st, pr, "infra")
         ELSE Goto([st EXCEPT !.users = updateUser(@, pr.user[1].id, [username |-> email])],
                   pr, "destroyAllSessionsByUserId:343")
    ELSE destroyAllSessionsByUserId(st, pr, o)

changeUsername(st, pr, o) ==
    LET email == toLowerCase(trim(pr.arg.newUsername)) IN
    IF pr.pc = "changeUsername:392"
    THEN IF st.demoMode THEN Throw(st, pr, "not-allowed-in-demo")
         ELSE IF o.fail THEN Throw(st, pr, "infra")
         ELSE LET user == getUserById(st.users, pr.arg.userId)
         IN IF user = <<>> THEN Throw(st, pr, "user-not-found")
            ELSE IF ~argon2verify(user[1].password, pr.arg.password)
            THEN Throw(st, pr, "invalid-password")
            ELSE IF ~isEmail(email) THEN Throw(st, pr, "invalid-username")
            ELSE Goto(st, [pr EXCEPT !.user = user], "changeUsername:410")
    ELSE IF pr.pc = "changeUsername:410"
    THEN IF o.fail THEN Throw(st, pr, "infra")
         ELSE IF getUserByUsername(st.users, email) # <<>> THEN Throw(st, pr, "user-already-exists")
         ELSE Goto(st, pr, "changeUsername:416")
    ELSE IF pr.pc = "changeUsername:416"
    THEN IF o.fail \/ usernameTaken(st.users, pr.user[1].id, email) THEN Throw(st, pr, "infra")
         ELSE Goto([st EXCEPT !.users = updateUser(@, pr.user[1].id, [username |-> email])],
                   pr, "destroyAllSessionsByUserId:343")
    ELSE destroyAllSessionsByUserId(st, pr, o)

(***************************************************************************)
(* One step of a request, and a request run to its end.                    *)
(***************************************************************************)
Handler(st, pr, o) ==
    CASE pr.op = "login" -> login(st, pr, o)
      [] pr.op = "verifyTotp" -> verifyTotp(st, pr, o)
      [] pr.op = "getTotpUri" -> getTotpUri(st, pr, o)
      [] pr.op = "setupTotp" -> setupTotp(st, pr, o)
      [] pr.op = "disableTotp" -> disableTotp(st, pr, o)
      [] pr.op = "register" -> register(st, pr, o)
      [] pr.op = "logout" -> logout(st, pr, o)
      [] pr.op = "changeOperatorPassword" -> changeOperatorPassword(st, pr, o)
      [] pr.op = "changePassword" -> changePassword(st, pr, o)
      [] pr.op = "changeUsername" -> changeUsername(st, pr, o)

Changed(s, t) == s.users # t.users \/ s.cache # t.cache \/ s.marker # t.marker

Step(st, pr, o) ==
    LET n == Handler(st, pr, o)
    IN [st |-> n.st, pr |-> [n.pr EXCEPT !.mutated = @ \/ Changed(st, n.st)]]

RECURSIVE Run(_, _, _)
Run(st, pr, o) ==
    IF pr.pc \in {"done", "stuck"} THEN [st |-> st, pr |-> pr]
    ELSE LET n == Step(st, pr, o) IN Run(n.st, n.pr, o)

(***************************************************************************)
(* The requests a client can make.                                         *)
(***************************************************************************)
Ua == <<"a", "@", "b", ".", "c", "o">>
UaRaw == <<" ", "A", "@", "b", ".", "c", "o">>
Ud == <<"d", "@", "b", ".", "c", "o">>
Ubad == <<"a", "b">>

UserIds == 1..MaxUsers
SessionIds == { uuidv4(n) : n \in 1..MaxIds }
ChallengeIds == { generateSessionId("otp", n) : n \in 1..MaxIds }

\* the parameters requests are made with: U usernames, W passwords, K TOTP
\* codes, C the ids given to verifyTotp; and what the handlers draw at
\* random: S TOTP seeds, T salts
Wide == [U |-> {Ua, UaRaw, Ud, Ubad}, W |-> {"", "pw", "password1", "password2"},
         K |-> {"111111", "222222", "000000"},
         C |-> ChallengeIds \cup SessionIds \cup { sessionKey(s) : s \in SessionIds },
         S |-> {"SEED1", "SEED2"}, T |-> {"salt1", "salt2"}]

Narrow == [U |-> {Ua, Ud}, W |-> {"pw", "password1", "password2"},
           K |-> {"111111", "000000"}, C |-> ChallengeIds,
           S |-> {"SEED1"}, T |-> {"salt1"}]

Racing == [U |-> {Ua, Ud}, W |-> {"password1", "password2"},
           K |-> {"111111"}, C |-> ChallengeIds,
           S |-> {"SEED1"}, T |-> {"salt1"}]

LoginRequests(in) ==
    { NewRequest("login", [username |-> u, password |-> w], "login:35") :
        u \in in.U, w \in in.W }
VerifyTotpRequests(in) ==
    { NewRequest("verifyTotp", [totpSessionId |-> c, totpCode |-> k], "verifyTotp:71") :
        c \in in.C, k \in in.K }
GetTotpUriRequests(in) ==
    { NewRequest("getTotpUri", [userId |-> i, password |-> w], "getTotpUri:115") :
        i \in UserIds, w \in in.W }
SetupTotpRequests(in) ==
    { NewRequest("setupTotp", [userId |-> i, totpCode |-> k], "setupTotp:152") :
        i \in UserIds, k \in in.K }
DisableTotpRequests(in) ==
    { NewRequest("disableTotp", [userId |-> i, password |-> w], "disableTotp:177") :
        i \in UserIds, w \in in.W }
RegisterRequests(in) ==
    { NewRequest("register", [username |-> u, password |-> w], "register:203") :
        u \in in.U, w \in in.W }
LogoutRequests(in) ==
    { NewRequest("logout", [sessionId |-> s], "logout:263") : s \in SessionIds }
ChangeOperatorPasswordRequests(in) ==
    { NewRequest("changeOperatorPassword", [newPassword |-> w], "changeOperatorPassword:287") :
        w \in in.W }
ChangePasswordRequests(in) ==
    { NewRequest("changePassword", [userId |-> i, currentPassword |-> w, newPassword |-> n],
                 "changePassword:360") : i \in UserIds, w \in in.W, n \in in.W }
ChangeUsernameRequests(in) ==
    { NewRequest("changeUsername", [userId |-> i, newUsername |-> u, password |-> w],
                 "changeUsername:392") : i \in UserIds, u \in in.U, w \in in.W }

\* what a step draws at random (the TOTP seed and the salt), and whether its
\* external call throws
Draws(req, fail, in) ==
    IF req.op = "getTotpUri" /\ req.pc = "getTotpUri:115" /\ ~fail
    THEN { [secret |-> s, salt |-> t, fail |-> fail] : s \in in.S, t \in in.T }
    ELSE { [secret |-> "", salt |-> "", fail |-> fail] }

St == [users |-> users, cache |-> cache, marker |-> marker, demoMode |-> demoMode,
       nextId |-> nextId]

Store(st) ==
    /\ users' = st.users
    /\ cache' = st.cache
    /\ marker' = st.marker
    /\ demoMode' = st.demoMode
    /\ nextId' = st.nextId
    /\ UNCHANGED tipiVars

(***************************************************************************)
(* TipiConfigClass (src/src/server/core/TipiConfig/TipiConfig.ts).  An     *)
(* object is a function from its keys to its values and a value is a pair  *)
(* <<type, text>>; <<>> is the object without keys.  null is <<>> and an   *)
(* object o that is there is <<o>>, as for the rows of the user table.     *)
(***************************************************************************)
Str(s) == <<"string", s>>
Num(s) == <<"number", s>>
Bool(b) == <<"boolean", IF b THEN "true" ELSE "false">>

\* { ...a, ...b }
Spread(a, b) == [k \in DOMAIN a \cup DOMAIN b |-> IF k \in DOMAIN b THEN b[k] ELSE a[k]]

\* obj[k] is neither undefined nor false
truthy(obj, k) == k \in DOMAIN obj /\ obj[k] # Bool(FALSE)

\* the keys the two schemas know and the type each key asks for
settingsKeys == {"domain"}
envKeys == {"jwtSecret", "NODE_ENV", "postgresPort", "demoMode", "domain"}
typeOf(k) == CASE k = "postgresPort" -> "number" [] k = "demoMode" -> "boolean" [] OTHER -> "string"

\* settingsSchema.safeParse(raw): every key is optional, a key the schema
\* does not know is dropped from the data
settingsSchema(raw) ==
    LET known == DOMAIN raw \cap settingsKeys
    IN [success |-> \A k \in known : raw[k][1] = typeOf(k),
        data |-> [k \in known |-> raw[k]]]

\* envSchema.safeParse(raw): jwtSecret is required, demoMode is a string or
\* a boolean and comes out as a boolean
envSchema(raw) ==
    LET known == DOMAIN raw \cap envKeys
        fits(k) == IF k = "demoMode" THEN raw[k][1] \in {"string", "boolean"}
                   ELSE raw[k][1] = typeOf(k)
    IN [success |-> "jwtSecret" \in known /\ \A k \in known : fits(k),
        data |-> [k \in known |-> IF k = "demoMode" THEN Bool(raw[k][2] = "true") ELSE raw[k]]]

cacheTimeout == 5000

\* the clock: Date.now() is far beyond cacheTimeout when the server starts
Epoch == 2 * cacheTimeout
TickMs == cacheTimeout \div 2

\* the fields of a TipiConfigClass object, the settings file and the clock
Tc == [config |-> config, fileConfigCache |-> fileConfigCache, cacheTime |-> cacheTime,
       settingsFile |-> settingsFile, now |-> now]

TcStore(t) ==
    /\ config' = t.config
    /\ fileConfigCache' = t.fileConfigCache
    /\ cacheTime' = t.cacheTime
    /\ settingsFile' = t.settingsFile
    /\ now' = t.now

\* read |-> TRUE: settings.json was read
getFileConfig(t) ==
    IF t.fileConfigCache # <<>> /\ t.now - t.cacheTime < cacheTimeout
    THEN [t |-> t, fileConfig |-> t.fileConfigCache[1], read |-> FALSE]
    ELSE LET rawFileConfig == IF t.settingsFile = <<>> THEN <<>> ELSE t.settingsFile[1]
             parsedFileConfig == settingsSchema(rawFileConfig)
         IN IF parsedFileConfig.success
            THEN [t |-> [t EXCEPT !.fileConfigCache = <<parsedFileConfig.data>>,
                                  !.cacheTime = t.now],
                  fileConfig |-> parsedFileConfig.data, read |-> TRUE]
            ELSE [t |-> t, fileConfig |-> <<>>, read |-> TRUE]

resetCache(t) == [t EXCEPT !.cacheTime = 0, !.fileConfigCache = <<>>]

getConfig(t) ==
    LET g == getFileConfig(t)
        conf == Spread(t.config, g.fileConfig)
    IN [t |-> g.t,
        conf |-> IF "NODE_ENV" \notin DOMAIN conf \/ conf["NODE_ENV"] # Str("test")
                 THEN Spread(conf, [postgresPort |-> Num("5432")])
                 ELSE conf,
        read |-> g.read]

\* a variant of setSettings without the demo mode guard
setSettings_noDemoCheck(t, settings) ==
    LET parsed == settingsSchema(settings)
    IN IF ~parsed.success
       THEN [t |-> t, kind |-> "return", err |-> "", read |-> FALSE, wrote |-> FALSE]
       ELSE LET g == getConfig([t EXCEPT !.settingsFile = <<parsed.data>>,
                                         !.cacheTime = 0, !.fileConfigCache = <<>>])
                e == envSchema(Spread(g.conf, parsed.data))
            IN IF e.success
               THEN [t |-> [g.t EXCEPT !.config = e.data], kind |-> "return", err |-> "",
                     read |-> g.read, wrote |-> TRUE]
               ELSE [t |-> g.t, kind |-> "throw", err |-> "ZodError",
                     read |-> g.read, wrote |-> TRUE]

\* wrote |-> TRUE: settings.json was written
setSettings(t, settings) ==
    IF truthy(t.config, "demoMode")
    THEN [t |-> t, kind |-> "throw", err |-> "Cannot update settings in demo mode",
          read |-> FALSE, wrote |-> FALSE]
    ELSE LET parsed == settingsSchema(settings)
    IN IF ~parsed.success
       THEN [t |-> t, kind |-> "return", err |-> "", read |-> FALSE, wrote |-> FALSE]
       ELSE LET g == getConfig([t EXCEPT !.settingsFile = <<parsed.data>>,
                                         !.cacheTime = 0, !.fileConfigCache = <<>>])
                e == envSchema(Spread(g.conf, parsed.data))
            IN IF e.success
               THEN [t |-> [g.t EXCEPT !.config = e.data], kind |-> "return", err |-> "",
                     read |-> g.read, wrote |-> TRUE]
               ELSE [t |-> g.t, kind |-> "throw", err |-> "ZodError",
                     read |-> g.read, wrote |-> TRUE]

\* lines 33-80: config stays {} when the environment does not parse
genConfig(t, env) ==
    LET g == getFileConfig(t)
        parsedConfig == envSchema(Spread(env, g.fileConfig))
    IN IF parsedConfig.success THEN [g.t EXCEPT !.config = parsedConfig.data] ELSE g.t

\* the environment, with DEMO_MODE and NODE_ENV as given
EnvOf(demo, nodeEnv) ==
    [jwtSecret |-> Str("secret"), NODE_ENV |-> Str(nodeEnv), postgresPort |-> Num("5433"),
     demoMode |-> Str(IF demo THEN "true" ELSE "false")]

\* an environment without JWT_SECRET
EnvBad == [NODE_ENV |-> Str("production"), demoMode |-> Str("false")]

NoOut == [op |-> "none", kind |-> "none", err |-> "", arg |-> <<>>, conf |-> <<>>,
          read |-> FALSE, wrote |-> FALSE, prev |-> <<>>, pre |-> <<>>, post |-> <<>>]

\* new TipiConfigClass(), with settings.json as it is at that moment
TipiConstructed(env, file) ==
    LET t == genConfig([config |-> <<>>, fileConfigCache |-> <<>>, cacheTime |-> 0,
                        settingsFile |-> file, now |-> Epoch], env)
    IN /\ config = t.config
       /\ fileConfigCache = t.fileConfigCache
       /\ cacheTime = t.cacheTime
       /\ settingsFile = file
       /\ now = Epoch
       /\ out = NoOut

Init ==
    /\ users = <<>>
    /\ cache = <<>>
    /\ marker = FALSE
    /\ demoMode \in BOOLEAN
    /\ nextId = 1
    /\ procs = [p \in Procs |-> Idle]
    /\ started = 0
    /\ TipiConstructed(EnvOf(demoMode, "production"), <<>>)

\* the response is sent and the worker takes the next request
Respond(p) ==
    /\ procs[p].pc = "done"
    /\ procs' = [procs EXCEPT ![p] = Idle]
    /\ UNCHANGED <<users, cache, marker, demoMode, nextId, started>>
    /\ UNCHANGED tipiVars

\* the operator creates the marker file from the host
RequestPasswordReset ==
    /\ ~marker
    /\ \A p \in Procs : procs[p].pc = "idle"
    /\ marker' = TRUE
    /\ UNCHANGED <<users, cache, demoMode, nextId, procs, started>>
    /\ UNCHANGED tipiVars

(***************************************************************************)
(* Spec: one request at a time, each handler from its first line to its    *)
(* return in one action.                                                   *)
(***************************************************************************)
Call(p, req) ==
    /\ procs[p].pc = "idle"
    /\ \E o \in Draws(req, FALSE, Wide) :
          LET r == Run(St, [req EXCEPT !.pre = St], o)
          IN /\ r.pr.pc = "done"
             /\ Store(r.st)
             /\ procs' = [procs EXCEPT ![p] = r.pr]
             /\ UNCHANGED started

Login(p) == \E r \in LoginRequests(Wide) : Call(p, r)
VerifyTotp(p) == \E r \in VerifyTotpRequests(Wide) : Call(p, r)
GetTotpUri(p) == \E r \in GetTotpUriRequests(Wide) : Call(p, r)
SetupTotp(p) == \E r \in SetupTotpRequests(Wide) : Call(p, r)
DisableTotp(p) == \E r \in DisableTotpRequests(Wide) : Call(p, r)
Register(p) == \E r \in RegisterRequests(Wide) : Call(p, r)
Logout(p) == \E r \in LogoutRequests(Wide) : Call(p, r)
ChangeOperatorPassword(p) == \E r \in ChangeOperatorPasswordRequests(Wide) : Call(p, r)
ChangePassword(p) == \E r \in ChangePasswordRequests(Wide) : Call(p, r)
ChangeUsername(p) == \E r \in ChangeUsernameRequests(Wide) : Call(p, r)

Next ==
    \/ Login(1)
    \/ VerifyTotp(1)
    \/ GetTotpUri(1)
    \/ SetupTotp(1)
    \/ DisableTotp(1)
    \/ Register(1)
    \/ Logout(1)
    \/ ChangeOperatorPassword(1)
    \/ ChangePassword(1)
    \/ ChangeUsername(1)
    \/ Respond(1)
    \/ RequestPasswordReset

Spec == Init /\ [][Next]_vars

(***************************************************************************)
(* SpecSteps: concurrent requests, interleaved at their external calls.    *)
(* SpecFaults: one request at a time, any external call may throw.         *)
(***************************************************************************)
Requests(in) ==
    LoginRequests(in) \cup VerifyTotpRequests(in) \cup GetTotpUriRequests(in)
    \cup SetupTotpRequests(in) \cup DisableTotpRequests(in) \cup RegisterRequests(in)
    \cup LogoutRequests(in) \cup ChangeOperatorPasswordRequests(in)
    \cup ChangePasswordRequests(in) \cup ChangeUsernameRequests(in)

\* a worker takes a request; count is 1 where the run's requests are counted
Start(p, in, count) ==
    /\ procs[p].pc = "idle"
    /\ started + count <= MaxRequests
    /\ \E r \in Requests(in) : procs' = [procs EXCEPT ![p] = r]
    /\ started' = started + count
    /\ UNCHANGED <<users, cache, marker, demoMode, nextId>>
    /\ UNCHANGED tipiVars

Proceed(p, fail) ==
    /\ procs[p].pc \notin {"idle", "done"}
    /\ \E o \in Draws(procs[p], fail, Narrow) :
          LET n == Step(St, procs[p], o)
          IN /\ n.pr.pc # "stuck"
             /\ Store(n.st)
             /\ procs' = [procs EXCEPT ![p] = n.pr]
             /\ UNCHANGED started

\* the request runs up to its next external call
Advance(p) == Proceed(p, FALSE)

\* the external call the request is waiting on throws
Fault(p) ==
    /\ procs[p].pc # "changeOperatorPassword:287"
    /\ Proceed(p, TRUE)

NextSteps ==
    \/ \E p \in Procs : Start(p, Racing, 1)
    \/ \E p \in Procs : Advance(p)
    \/ \E p \in Procs : Respond(p)
    \/ RequestPasswordReset

InitSteps == Init /\ ~demoMode

SpecSteps == InitSteps /\ [][NextSteps]_vars

NextFaults ==
    \/ Start(1, Narrow, 0)
    \/ Advance(1)
    \/ Fault(1)
    \/ Respond(1)
    \/ RequestPasswordReset

SpecFaults == Init /\ [][NextFaults]_vars

(***************************************************************************)
(* SpecNames: concurrent requests as in SpecSteps, made with usernames in  *)
(* several spellings and one password.                                     *)
(***************************************************************************)
Naming == [U |-> {Ua, UaRaw, Ud}, W |-> {"password1"},
           K |-> {"111111"}, C |-> ChallengeIds,
           S |-> {"SEED1"}, T |-> {"salt1"}]

NextNames ==
    \/ \E p \in Procs : Start(p, Naming, 1)
    \/ \E p \in Procs : Advance(p)
    \/ \E p \in Procs : Respond(p)
    \/ RequestPasswordReset

SpecNames == InitSteps /\ [][NextNames]_vars

(***************************************************************************)
(* SpecConfig: the calls of TipiConfig's methods, one at a time, while the *)
(* clock runs and settings.json is edited on the host.                     *)
(***************************************************************************)
SettingsInputs ==
    { <<>>,
      [domain |-> Str("tipi.local")],
      [domain |-> Str("example.com"), extra |-> Str("x")],
      [domain |-> Num("42")] }

FileContents == { <<>>, << [domain |-> Str("tipi.local")] >>, << [domain |-> Num("42")] >> }

Envs == { EnvOf(FALSE, "production"), EnvOf(TRUE, "production"), EnvOf(FALSE, "test"), EnvBad }

InitConfig ==
    /\ users = <<>>
    /\ cache = <<>>
    /\ marker = FALSE
    /\ nextId = 1
    /\ procs = [p \in Procs |-> Idle]
    /\ started = 0
    /\ \E env \in Envs, file \in FileContents : TipiConstructed(env, file)
    /\ demoMode = truthy(config, "demoMode")

\* the call before this one
Last == [op |-> out.op, kind |-> out.kind, wrote |-> out.wrote]

SetSettings ==
    \E settings \in SettingsInputs :
        LET r == setSettings(Tc, settings)
        IN /\ TcStore(r.t)
           /\ out' = [op |-> "setSettings", kind |-> r.kind, err |-> r.err, arg |-> settings,
                      conf |-> <<>>, read |-> r.read, wrote |-> r.wrote, prev |-> Last,
                      pre |-> Tc, post |-> r.t]
           /\ UNCHANGED authVars

GetConfig ==
    LET r == getConfig(Tc)
    IN /\ TcStore(r.t)
       /\ out' = [op |-> "getConfig", kind |-> "return", err |-> "", arg |-> <<>>,
                  conf |-> r.conf, read |-> r.read, wrote |-> FALSE, prev |-> Last,
                  pre |-> Tc, post |-> r.t]
       /\ UNCHANGED authVars

ResetCache ==
    /\ TcStore(resetCache(Tc))
    /\ out' = [op |-> "resetCache", kind |-> "return", err |-> "", arg |-> <<>>,
               conf |-> <<>>, read |-> FALSE, wrote |-> FALSE, prev |-> Last,
               pre |-> Tc, post |-> resetCache(Tc)]
    /\ UNCHANGED authVars

\* time passes
Tick ==
    /\ now < Epoch + MaxTicks * TickMs
    /\ now' = now + TickMs
    /\ UNCHANGED <<config, fileConfigCache, cacheTime, settingsFile, out>>
    /\ UNCHANGED authVars

\* the operator edits settings.json on the host
EditSettingsFile ==
    /\ \E file \in FileContents : file # settingsFile /\ settingsFile' = file
    /\ UNCHANGED <<config, fileConfigCache, cacheTime, now, out>>
    /\ UNCHANGED authVars

NextConfig ==
    \/ SetSettings
    \/ GetConfig
    \/ ResetCache
    \/ Tick
    \/ EditSettingsFile

SpecConfig == InitConfig /\ [][NextConfig]_vars

(***************************************************************************)
(* What the claims speak of.                                               *)
(***************************************************************************)
Finished(p, op) == procs[p].pc = "done" /\ procs[p].op = op

Succeeded(p, op) == Finished(p, op) /\ procs[p].res.kind # "error"

Failed(p, op, err) == Finished(p, op) /\ procs[p].res.kind = "error" /\ procs[p].res.err = err

\* the keys session:<sessionId> and session:<userId>:<sessionId>
SessionEntries(c) == { k \in DOMAIN c : k[1][1] = "session" }

\* every other key: the login challenges
ChallengeEntries(c) == { k \in DOMAIN c : k[1][1] # "session" }

\* resolve(sessionId): the user id session:<sessionId> maps to, <<>> if absent
resolve(c, sessionId) == cacheGet(c, sessionKey(sessionId))

\* the session ids issued to a user: both of their keys are present
SessionsOf(c, userId) ==
    { s \in SessionIds : /\ resolve(c, s) = toString(userId)
                         /\ trackingKey(userId, s) \in DOMAIN c }

\* the user a login request names, and whether its password is that user's
LoginUser(r) == getUserByUsername(r.pre.users, r.arg.username)

CorrectCredentials(r) ==
    LoginUser(r) # <<>> /\ argon2verify(LoginUser(r)[1].password, r.arg.password)

(***************************************************************************)
(* C1: a login with the correct username and password of a user whose      *)
(* totpEnabled is false returns a fresh session id that resolves to that   *)
(* user, does not return a challenge id and leaves the login challenges    *)
(* of the cache as they were.                                              *)
(***************************************************************************)
C1_LoginWithoutTotp ==
    \A p \in Procs :
        LET r == procs[p] IN
        (Finished(p, "login") /\ CorrectCredentials(r) /\ ~LoginUser(r)[1].totpEnabled) =>
            /\ r.res.kind = "sessionId"
            /\ resolve(r.pre.cache, r.res.id) = <<>>
            /\ resolve(cache, r.res.id) = toString(LoginUser(r)[1].id)
            /\ r.res.id \in SessionsOf(cache, LoginUser(r)[1].id)
            /\ ChallengeEntries(cache) = ChallengeEntries(r.pre.cache)

C1_Witness ==
    \E p \in Procs :
        /\ Finished(p, "login")
        /\ CorrectCredentials(procs[p])
        /\ ~LoginUser(procs[p])[1].totpEnabled
        /\ procs[p].res.kind = "sessionId"

(***************************************************************************)
(* C2: a login with the correct credentials of a user whose totpEnabled    *)
(* is true returns a challenge id and creates no session; and whenever a   *)
(* session appears for a user whose totpEnabled is true, the request that  *)
(* created it is a successful verifyTotp made with a challenge id that     *)
(* login issued for that user.                                             *)
(***************************************************************************)
NewSessions(r) ==
    { s \in SessionIds : resolve(cache, s) # <<>> /\ resolve(r.pre.cache, s) = <<>> }

TotpUserBefore(r, s) ==
    LET u == getUserById(r.pre.users, Number(resolve(cache, s)))
    IN u # <<>> /\ u[1].totpEnabled

C2_SessionOnlyThroughChallenge ==
    \A p \in Procs :
        LET r == procs[p] IN
        /\ (Finished(p, "login") /\ CorrectCredentials(r) /\ LoginUser(r)[1].totpEnabled) =>
              /\ r.res.kind = "totpSessionId"
              /\ cacheGet(cache, r.res.id) = toString(LoginUser(r)[1].id)
              /\ SessionEntries(cache) = SessionEntries(r.pre.cache)
        /\ r.pc = "done" =>
              \A s \in NewSessions(r) :
                  TotpUserBefore(r, s) =>
                      /\ Succeeded(p, "verifyTotp")
                      /\ r.arg.totpSessionId \in ChallengeIds
                      /\ cacheGet(r.pre.cache, r.arg.totpSessionId) = resolve(cache, s)

\* the same with any cache key that maps to the user in place of the challenge id
C2_SessionOnlyThroughVerifyTotp ==
    \A p \in Procs :
        LET r == procs[p] IN
        /\ (Finished(p, "login") /\ CorrectCredentials(r) /\ LoginUser(r)[1].totpEnabled) =>
              /\ r.res.kind = "totpSessionId"
              /\ cacheGet(cache, r.res.id) = toString(LoginUser(r)[1].id)
              /\ SessionEntries(cache) = SessionEntries(r.pre.cache)
        /\ r.pc = "done" =>
              \A s \in NewSessions(r) :
                  TotpUserBefore(r, s) =>
                      /\ Succeeded(p, "verifyTotp")
                      /\ cacheGet(r.pre.cache, r.arg.totpSessionId) = resolve(cache, s)

(***************************************************************************)
(* C3: a verifyTotp whose challenge id resolves removes the challenge      *)
(* entry, whether it then succeeds or fails, so that the id resolves no    *)
(* more.                                                                   *)
(***************************************************************************)
C3_ChallengeSingleUse ==
    \A p \in Procs :
        LET r == procs[p] IN
        (/\ Finished(p, "verifyTotp")
         /\ r.arg.totpSessionId \in ChallengeIds
         /\ cacheGet(r.pre.cache, r.arg.totpSessionId) # <<>>) =>
            cacheGet(cache, r.arg.totpSessionId) = <<>>

(***************************************************************************)
(* C4: after a successful changePassword or changeUsername of user u,      *)
(* every session id issued to u before the call (both keys present)        *)
(* resolves to absent and its tracking key is gone.                        *)
(***************************************************************************)
Revoking(p) == Succeeded(p, "changePassword") \/ Succeeded(p, "changeUsername")

C4_ChangeRevokesEverySession ==
    \A p \in Procs :
        LET r == procs[p] IN
        Revoking(p) =>
            \A s \in SessionsOf(r.pre.cache, r.arg.userId) :
                /\ resolve(cache, s) = <<>>
                /\ trackingKey(r.arg.userId, s) \notin DOMAIN cache

C4_Witness ==
    \E p \in Procs :
        /\ Succeeded(p, "changePassword")
        /\ Cardinality(SessionsOf(procs[p].pre.cache, procs[p].arg.userId)) >= 2

(***************************************************************************)
(* C5: once a register has succeeded (the user table has a row), every     *)
(* register fails with admin-already-exists, whatever its username and     *)
(* password, and leaves the user table and the cache as they were.         *)
(***************************************************************************)
C5_SecondRegisterRejected ==
    \A p \in Procs :
        LET r == procs[p] IN
        (Finished(p, "register") /\ r.pre.users # <<>>) =>
            /\ Failed(p, "register", "admin-already-exists")
            /\ users = r.pre.users
            /\ cache = r.pre.cache

C5_Witness ==
    \E p \in Procs :
        /\ Failed(p, "register", "admin-already-exists")
        /\ procs[p].pre.users # <<>>
        /\ getUserByUsername(users, toLowerCase(trim(procs[p].arg.username))) = <<>>
        /\ procs[p].arg.password = "password1"

(***************************************************************************)
(* C7: changeOperatorPassword succeeds only if the marker exists when it   *)
(* is called; on success the operator has the new password hash,           *)
(* totpEnabled false and totpSecret null, nothing else of the user table   *)
(* has changed, and the marker is gone; with no marker it fails with       *)
(* no-change-password-request and changes nothing.  No handler creates     *)
(* the marker, so a second call in a row meets no marker and fails so.     *)
(***************************************************************************)
ResetApplied(r) ==
    LET before == getFirstOperator(r.pre.users)
    IN /\ before # <<>>
       /\ users = updateUser(r.pre.users, before[1].id,
                             [password |-> argon2hash(r.arg.newPassword),
                              totpEnabled |-> FALSE, totpSecret |-> <<>>])
       /\ argon2verify(users[before[1].id].password, r.arg.newPassword)
       /\ ~users[before[1].id].totpEnabled
       /\ users[before[1].id].totpSecret = <<>>

ResetOutcome(p) ==
    LET r == procs[p] IN
    /\ Succeeded(p, "changeOperatorPassword") =>
          r.pre.marker /\ ~marker /\ ResetApplied(r) /\ cache = r.pre.cache
    /\ (Finished(p, "changeOperatorPassword") /\ ~r.pre.marker) =>
          /\ Failed(p, "changeOperatorPassword", "no-change-password-request")
          /\ users = r.pre.users /\ cache = r.pre.cache /\ ~marker

C7_ResetHonoredOncePerMarker ==
    [][ /\ \A p \in Procs : ResetOutcome(p)'
        /\ (~marker /\ marker') => \A p \in Procs : procs'[p] = Idle /\ procs[p] = Idle ]_vars

C7_Witness ==
    \E p \in Procs :
        /\ Succeeded(p, "changeOperatorPassword")
        /\ getFirstOperator(procs[p].pre.users)[1].totpEnabled
        /\ ~argon2verify(getFirstOperator(procs[p].pre.users)[1].password,
                         procs[p].arg.newPassword)

(***************************************************************************)
(* C6: under every interleaving of concurrent register calls the user      *)
(* table holds no more than one row with operator = true.                  *)
(***************************************************************************)
C6_AtMostOneOperator == Cardinality(getOperators(users)) <= 1

(***************************************************************************)
(* C8: of two changeOperatorPassword calls that race on one marker, at     *)
(* most one gets as far as storing its password.  (The marker is created   *)
(* only while no request is in flight, so two calls in flight that have    *)
(* both passed the marker check passed it on the same marker.)             *)
(***************************************************************************)
ResetStored(p) ==
    /\ procs[p].op = "changeOperatorPassword"
    /\ \/ procs[p].pc = "changeOperatorPassword:303"
       \/ procs[p].pc = "done" /\ procs[p].res.err # "no-change-password-request"
                               /\ procs[p].res.err # "operator-not-found"

C8_MarkerAuthorizesOneReset ==
    \A p, q \in Procs : (p # q /\ ResetStored(p)) => ~ResetStored(q)

(***************************************************************************)
(* C9: in every reachable state of the user table, under any interleaving  *)
(* of the handlers, a user with totpEnabled = true has a totpSecret and a  *)
(* salt.                                                                   *)
(***************************************************************************)
C9_TotpEnabledHasSecretAndSalt ==
    \A i \in 1..Len(users) :
        users[i].totpEnabled => (users[i].totpSecret # <<>> /\ users[i].salt # "")

C11_LogoutRevokesOneSession ==
    \A p \in Procs :
        LET r == procs[p] IN
        Finished(p, "logout") =>
            /\ r.res.kind = "true"
            /\ resolve(cache, r.arg.sessionId) = <<>>
            /\ resolve(r.pre.cache, r.arg.sessionId) = <<>> => cache = r.pre.cache
            /\ \A s \in SessionIds \ {r.arg.sessionId} : resolve(cache, s) = resolve(r.pre.cache, s)
            /\ users = r.pre.users

C11_Witness ==
    \E p \in Procs :
        /\ Succeeded(p, "logout")
        /\ resolve(procs[p].pre.cache, procs[p].arg.sessionId) # <<>>
        /\ \E s \in SessionIds : resolve(cache, s) = resolve(procs[p].pre.cache, procs[p].arg.sessionId)

(***************************************************************************)
(* C12: between any two requests the key session:<sessionId> is in the     *)
(* cache if and only if a tracking key session:<userId>:<sessionId> is.    *)
(***************************************************************************)
C12_SessionKeysPaired ==
    \A s \in SessionIds :
        sessionKey(s) \in DOMAIN cache <=> \E u \in UserIds : trackingKey(u, s) \in DOMAIN cache

(***************************************************************************)
(* C13: a changeUsername whose password was correct and whose new          *)
(* username, trimmed and lower-cased, belongs to another user fails with   *)
(* user-already-exists at its lookup; the user table and the cache are     *)
(* left as they were, and no earlier step of the request changed them.     *)
(***************************************************************************)
OwnedByAnother(u, r) ==
    usernameTaken(u, r.arg.userId, toLowerCase(trim(r.arg.newUsername)))

C13_TakenUsernameRejected ==
    [][ \A p \in Procs :
          (/\ procs[p].pc = "changeUsername:410"
           /\ procs'[p] # procs[p]
           /\ OwnedByAnother(users, procs[p])) =>
              /\ procs'[p].pc = "done"
              /\ procs'[p].res.kind = "error"
              /\ procs'[p].res.err = "user-already-exists"
              /\ ~procs'[p].mutated
              /\ users' = users
              /\ cache' = cache ]_vars

C13_Witness ==
    \E p \in Procs :
        /\ Failed(p, "changeUsername", "user-already-exists")
        /\ OwnedByAnother(users, procs[p])
        /\ users[procs[p].arg.userId].username # toLowerCase(trim(procs[p].arg.newUsername))
        /\ SessionsOf(cache, procs[p].arg.userId) # {}

(***************************************************************************)
(* C14: while demoMode is true, getTotpUri, setupTotp, changePassword and  *)
(* changeUsername fail with not-allowed-in-demo whatever their input (a    *)
(* user that does not exist, a wrong password, a bad code or username      *)
(* included), and leave the user table, the cache and the marker as they   *)
(* were.                                                                   *)
(***************************************************************************)
DemoGuarded == {"getTotpUri", "setupTotp", "changePassword", "changeUsername"}

C14_DemoModeForbids ==
    \A p \in Procs :
        LET r == procs[p] IN
        (demoMode /\ r.pc = "done" /\ r.op \in DemoGuarded) =>
            /\ r.res.kind = "error"
            /\ r.res.err = "not-allowed-in-demo"
            /\ ~r.mutated
            /\ users = r.pre.users /\ cache = r.pre.cache /\ marker = r.pre.marker

\* refused although the user exists, the password is right and a session is there to revoke
C14_Witness ==
    \E p \in Procs :
        LET r == procs[p] IN
        /\ demoMode
        /\ Failed(p, "changePassword", "not-allowed-in-demo")
        /\ getUserById(users, r.arg.userId) # <<>>
        /\ argon2verify(users[r.arg.userId].password, r.arg.currentPassword)
        /\ Len(r.arg.newPassword) >= 8
        /\ SessionsOf(cache, r.arg.userId) # {}

(***************************************************************************)
(* C15: the sweep is a set of independent deletions.  When the del of one  *)
(* enumerated entry rejects, the tracking key and the session key of       *)
(* every other enumerated entry are deleted all the same (the sweep's      *)
(* callbacks are all started before any of them can reject, and each runs  *)
(* to its end).                                                            *)
(***************************************************************************)
Sweeping == {"changePassword", "changeUsername"}

\* the callbacks (entries of the list) one of whose dels rejected
Rejected(r) == { IF i <= Len(r.list) THEN i ELSE i - Len(r.list) : i \in r.skip }

C15_SweepDeletionsIndependent ==
    \A p \in Procs :
        LET r == procs[p] IN
        (r.pc = "done" /\ r.op \in Sweeping /\ r.list # <<>>) =>
            \A j \in (1..Len(r.list)) \ Rejected(r) :
                /\ r.list[j].key \notin DOMAIN cache
                /\ r.list[j].val \notin DOMAIN cache

C15_Witness ==
    \E p \in Procs :
        LET r == procs[p] IN
        /\ Failed(p, "changePassword", "infra")
        /\ Len(r.list) >= 2
        /\ Cardinality(Rejected(r)) = 1
        /\ \E j \in Rejected(r) : r.list[j].key \in DOMAIN cache /\ r.list[j].val \in DOMAIN cache
        /\ \E j \in (1..Len(r.list)) \ Rejected(r) : r.list[j].key \notin DOMAIN cache

(***************************************************************************)
(* C16: a tracking key whose session entry is absent does not disturb the  *)
(* sweep.  A changePassword or changeUsername whose checks pass, called    *)
(* while the user has such a key, succeeds; afterwards no tracking key of  *)
(* the user is left and no session issued to the user resolves.            *)
(***************************************************************************)
Orphans(c, userId) ==
    { s \in SessionIds : trackingKey(userId, s) \in DOMAIN c /\ sessionKey(s) \notin DOMAIN c }

\* the checks of changePassword and of changeUsername pass on the store as it was
Accepted(r) ==
    LET user == getUserById(r.pre.users, r.arg.userId)
    IN /\ ~r.pre.demoMode
       /\ user # <<>>
       /\ IF r.op = "changePassword"
          THEN /\ argon2verify(user[1].password, r.arg.currentPassword)
               /\ Len(r.arg.newPassword) >= 8
          ELSE /\ argon2verify(user[1].password, r.arg.password)
               /\ isEmail(toLowerCase(trim(r.arg.newUsername)))
               /\ getUserByUsername(r.pre.users, toLowerCase(trim(r.arg.newUsername))) = <<>>

C16_SweepToleratesOrphans ==
    \A p \in Procs :
        LET r == procs[p] IN
        (/\ r.pc = "done" /\ r.op \in Sweeping
         /\ Accepted(r)
         /\ Orphans(r.pre.cache, r.arg.userId) # {}) =>
            /\ r.res.kind = "true"
            /\ \A s \in SessionIds : trackingKey(r.arg.userId, s) \notin DOMAIN cache
            /\ \A s \in SessionsOf(r.pre.cache, r.arg.userId) : resolve(cache, s) = <<>>

C16_Witness ==
    \E p \in Procs :
        LET r == procs[p] IN
        /\ Succeeded(p, "changeUsername")
        /\ Orphans(r.pre.cache, r.arg.userId) # {}
        /\ SessionsOf(r.pre.cache, r.arg.userId) # {}
        /\ Orphans(cache, r.arg.userId) = {}

(***************************************************************************)
(* C17: after a successful changePassword, changeUsername or               *)
(* changeOperatorPassword no session that was issued to the user before    *)
(* the call resolves.                                                      *)
(***************************************************************************)
CredentialChanged(p) == Revoking(p) \/ Succeeded(p, "changeOperatorPassword")

\* the user whose password or username the request replaces
ChangedUser(r) ==
    IF r.op = "changeOperatorPassword" THEN getFirstOperator(r.pre.users)[1].id
    ELSE r.arg.userId

C17_CredentialChangeRevokesGrants ==
    \A p \in Procs :
        LET r == procs[p] IN
        CredentialChanged(p) =>
            \A s \in SessionsOf(r.pre.cache, ChangedUser(r)) : resolve(cache, s) = <<>>

(***************************************************************************)
(* C18: a challenge is filed under its own id otp-<uuid> and never under   *)
(* session:<id>: every key of the cache that is not a session key is a     *)
(* challenge id, no challenge id resolves as a session, and a verifyTotp   *)
(* that is given a session id fails with totp-session-not-found.           *)
(***************************************************************************)
C18_ChallengeIsNoSession ==
    /\ ChallengeEntries(cache) \subseteq ChallengeIds
    /\ \A c \in ChallengeIds : resolve(cache, c) = <<>>
    /\ \A p \in Procs :
          (Finished(p, "verifyTotp") /\ procs[p].arg.totpSessionId \in SessionIds) =>
              /\ Failed(p, "verifyTotp", "totp-session-not-found")
              /\ cache = procs[p].pre.cache

\* a live session id is refused while a challenge of the same user is pending
C18_Witness ==
    \E p \in Procs :
        LET r == procs[p] IN
        /\ Failed(p, "verifyTotp", "totp-session-not-found")
        /\ r.arg.totpSessionId \in SessionIds
        /\ resolve(cache, r.arg.totpSessionId) # <<>>
        /\ \E c \in ChallengeIds : cacheGet(cache, c) = resolve(cache, r.arg.totpSessionId)
        /\ TotpCheck(r.arg.totpCode,
                     decrypt(users[Number(resolve(cache, r.arg.totpSessionId))].totpSecret,
                             users[Number(resolve(cache, r.arg.totpSessionId))].salt))

(***************************************************************************)
(* C19: under every interleaving, the step that makes a session id         *)
(* resolve to a user whose totpEnabled is true at that moment is a step    *)
(* of a verifyTotp request, never of a login.  (The session register       *)
(* writes for the user it has just created is left aside.)                 *)
(***************************************************************************)
C19_PasswordAloneYieldsNoSession ==
    [][ \A p \in Procs : \A s \in SessionIds :
          (/\ procs'[p] # procs[p]
           /\ procs[p].op # "register"
           /\ resolve(cache, s) = <<>>
           /\ resolve(cache', s) # <<>>
           /\ getUserById(users, Number(resolve(cache', s))) # <<>>
           /\ users[Number(resolve(cache', s))].totpEnabled) =>
              procs[p].op = "verifyTotp" ]_vars

(***************************************************************************)
(* C20, as stated: once a changePassword that interleaved with a login of  *)
(* the same user has returned, the session of that login resolves only if  *)
(* the sweep did not enumerate its tracking key (the key was written       *)
(* after the enumeration).                                                 *)
(***************************************************************************)
Enumerated(r) == { r.list[j].key : j \in 1..Len(r.list) }

ChallengeUser(r) ==
    getUserById(r.pre.users, Number(cacheGet(r.pre.cache, r.arg.totpSessionId)))

Enrolled(user) == user.totpEnabled /\ user.totpSecret # <<>> /\ user.salt # ""

VerifyTotpError(r) ==
    CASE cacheGet(r.pre.cache, r.arg.totpSessionId) = <<>> -> "totp-session-not-found"
      [] OTHER ->
         CASE ChallengeUser(r) = <<>> -> "user-not-found"
           [] OTHER ->
              CASE ~Enrolled(ChallengeUser(r)[1]) -> "totp-not-enabled"
                [] OTHER ->
                   IF r.arg.totpCode = CodeOf(ChallengeUser(r)[1].totpSecret[2])
                      /\ ChallengeUser(r)[1].totpSecret[3] = ChallengeUser(r)[1].salt
                   THEN "" ELSE "totp-invalid-code"

C21_VerifyTotpOutcome ==
    \A p \in Procs :
        LET r == procs[p] IN
        Finished(p, "verifyTotp") =>
            /\ users = r.pre.users
            /\ IF VerifyTotpError(r) = ""
               THEN /\ r.res.kind = "true"
                    /\ Cardinality(NewSessions(r)) = 1
                    /\ \A s \in NewSessions(r) :
                          /\ resolve(cache, s) = toString(ChallengeUser(r)[1].id)
                          /\ s \in SessionsOf(cache, ChallengeUser(r)[1].id)
               ELSE /\ r.res.kind = "error"
                    /\ r.res.err = VerifyTotpError(r)
                    /\ SessionEntries(cache) = SessionEntries(r.pre.cache)
                    /\ \A k \in SessionEntries(cache) : cache[k] = r.pre.cache[k]

\* a challenge issued while TOTP was enabled is refused once it is disabled
C21_Witness ==
    \E p \in Procs :
        LET r == procs[p] IN
        /\ Failed(p, "verifyTotp", "totp-not-enabled")
        /\ r.arg.totpSessionId \in ChallengeIds
        /\ ChallengeUser(r) # <<>>
        /\ ~ChallengeUser(r)[1].totpEnabled

(***************************************************************************)
(* C22: after a successful getTotpUri the user has a totpSecret that       *)
(* decrypts with the stored salt, a salt, and totpEnabled still false; a   *)
(* salt that was stored before is the salt stored after; nothing else of   *)
(* the user table and nothing of the cache has changed.  With the right    *)
(* password and totpEnabled already true it fails with                     *)
(* totp-already-enabled and changes nothing.                               *)
(***************************************************************************)
C22_ProvisioningKeepsSaltAndDisabled ==
    \A p \in Procs :
        LET r == procs[p]
            before == getUserById(r.pre.users, r.arg.userId)
        IN /\ Succeeded(p, "getTotpUri") =>
                LET after == users[r.arg.userId] IN
                /\ before # <<>> /\ ~before[1].totpEnabled
                /\ ~after.totpEnabled
                /\ after.totpSecret # <<>> /\ after.salt # ""
                /\ decrypt(after.totpSecret, after.salt) # ""
                /\ before[1].salt # "" => after.salt = before[1].salt
                /\ users = updateUser(r.pre.users, r.arg.userId,
                                      [totpSecret |-> after.totpSecret, salt |-> after.salt])
                /\ cache = r.pre.cache
           /\ (/\ Finished(p, "getTotpUri") /\ ~r.pre.demoMode /\ before # <<>>
               /\ argon2verify(before[1].password, r.arg.password)
               /\ before[1].totpEnabled) =>
                /\ Failed(p, "getTotpUri", "totp-already-enabled")
                /\ users = r.pre.users /\ cache = r.pre.cache

\* a second provisioning: the salt is the one already stored, the seed is new
C22_Witness ==
    \E p \in Procs :
        LET r == procs[p] IN
        /\ Succeeded(p, "getTotpUri")
        /\ r.pre.users[r.arg.userId].salt # ""
        /\ users[r.arg.userId].salt = r.pre.users[r.arg.userId].salt
        /\ users[r.arg.userId].totpSecret # r.pre.users[r.arg.userId].totpSecret

(***************************************************************************)
(* C23: a setupTotp succeeds only for a user that exists, has totpEnabled  *)
(* false, a seed and a salt, and with the code of the stored seed; it      *)
(* then sets totpEnabled and changes no other field.  With TOTP enabled    *)
(* or no seed or salt stored it fails with totp-already-enabled, with a    *)
(* wrong code with totp-invalid-code, and a setupTotp that fails leaves    *)
(* the user table as it was.                                               *)
(***************************************************************************)
InSetup(user) == ~user.totpEnabled /\ user.totpSecret # <<>> /\ user.salt # ""

StoredCode(user) == CodeOf(decrypt(user.totpSecret, user.salt))

C23_EnableOnlyFromSetup ==
    \A p \in Procs :
        LET r == procs[p]
            before == getUserById(r.pre.users, r.arg.userId)
        IN Finished(p, "setupTotp") =>
            /\ r.res.kind = "error" => users = r.pre.users
            /\ r.res.kind # "error" =>
                  /\ before # <<>> /\ InSetup(before[1])
                  /\ r.arg.totpCode = StoredCode(before[1])
                  /\ users = updateUser(r.pre.users, r.arg.userId, [totpEnabled |-> TRUE])
                  /\ users[r.arg.userId].totpEnabled
            /\ (~r.pre.demoMode /\ before # <<>>) =>
                  /\ ~InSetup(before[1]) => r.res.err = "totp-already-enabled"
                  /\ (InSetup(before[1]) /\ r.arg.totpCode # StoredCode(before[1]))
                        => r.res.err = "totp-invalid-code"
            /\ cache = r.pre.cache

C23_Witness ==
    \E p \in Procs :
        /\ Succeeded(p, "setupTotp")
        /\ ~procs[p].pre.users[procs[p].arg.userId].totpEnabled
        /\ users[procs[p].arg.userId].totpEnabled
        /\ SessionsOf(cache, procs[p].arg.userId) # {}

(***************************************************************************)
(* C24: a disableTotp succeeds only for a user that exists, has            *)
(* totpEnabled true and whose password is the one given; it then clears    *)
(* totpEnabled and totpSecret and changes nothing else (salt, password,    *)
(* username, the sessions), so that login no longer asks that user for a   *)
(* second factor.  For a user whose totpEnabled is false it fails with     *)
(* totp-not-enabled whatever the password.                                 *)
(***************************************************************************)
C24_DisableClearsEnrolmentOnly ==
    \A p \in Procs :
        LET r == procs[p]
            before == getUserById(r.pre.users, r.arg.userId)
        IN Finished(p, "disableTotp") =>
            /\ cache = r.pre.cache
            /\ r.res.kind = "error" => users = r.pre.users
            /\ r.res.kind # "error" =>
                  /\ before # <<>> /\ before[1].totpEnabled
                  /\ argon2verify(before[1].password, r.arg.password)
                  /\ users = updateUser(r.pre.users, r.arg.userId,
                                        [totpEnabled |-> FALSE, totpSecret |-> <<>>])
                  /\ users[r.arg.userId].salt = before[1].salt
                  /\ users[r.arg.userId].password = before[1].password
                  /\ users[r.arg.userId].username = before[1].username
                  /\ ~secondFactorRequired(users[r.arg.userId])
            /\ (before # <<>> /\ ~before[1].totpEnabled) => r.res.err = "totp-not-enabled"
            /\ (before # <<>> /\ before[1].totpEnabled
                /\ ~argon2verify(before[1].password, r.arg.password)) => r.res.err = "invalid-password"

C24_Witness ==
    \E p \in Procs :
        LET r == procs[p] IN
        /\ Succeeded(p, "disableTotp")
        /\ r.pre.users[r.arg.userId].totpEnabled
        /\ ~users[r.arg.userId].totpEnabled
        /\ users[r.arg.userId].totpSecret = <<>>
        /\ users[r.arg.userId].salt # ""
        /\ SessionsOf(cache, r.arg.userId) # {}

\* the operator's row holds the hash of the reset's new password and no
\* TOTP enrollment
ResetPersisted(r) ==
    /\ r.user # <<>>
    /\ LET u == users[r.user[1].id]
       IN /\ argon2verify(u.password, r.arg.newPassword)
          /\ ~u.totpEnabled
          /\ u.totpSecret = <<>>

\* the request a login with the reset's new password ends as, run on the
\* store as it is
LoginAfterReset(r) ==
    Run(St, NewRequest("login", [username |-> users[r.user[1].id].username,
                                 password |-> r.arg.newPassword], "login:35"),
        [secret |-> "", salt |-> "", fail |-> FALSE])

(***************************************************************************)
(* C25: the step of changeOperatorPassword that deletes the marker is      *)
(* taken with the new password hash and the cleared TOTP enrollment        *)
(* already in the user store; with the marker present and no operator the  *)
(* handler fails with operator-not-found and has changed neither the       *)
(* marker nor the store; once it has succeeded, a login with the new       *)
(* password is answered with a session id of the operator and not with a   *)
(* challenge id, also where the operator had TOTP enabled.                 *)
(***************************************************************************)
C25_MarkerDeletedAfterPersist ==
    [][ /\ (marker /\ ~marker') =>
              \E p \in Procs : /\ procs[p].pc = "changeOperatorPassword:303"
                               /\ ResetPersisted(procs[p])
                               /\ users' = users
                               /\ Succeeded(p, "changeOperatorPassword")'
        /\ \A p \in Procs :
              /\ ( /\ procs[p].pc = "changeOperatorPassword:293"
                   /\ getFirstOperator(users) = <<>>
                   /\ procs'[p].pc = "done" /\ procs'[p].res.err # "infra" ) =>
                    /\ Failed(p, "changeOperatorPassword", "operator-not-found")'
                    /\ ~procs'[p].mutated
                    /\ marker /\ marker' /\ users' = users
              /\ (procs[p].pc # "done" /\ Failed(p, "changeOperatorPassword", "operator-not-found")') =>
                    /\ getFirstOperator(users) = <<>>
                    /\ ~procs'[p].mutated /\ marker'
              /\ (procs[p].pc # "done" /\ Succeeded(p, "changeOperatorPassword")') =>
                    procs[p].pc = "changeOperatorPassword:303" /\ ~marker'
              \* in the state the successful reset leaves
              /\ Succeeded(p, "changeOperatorPassword") =>
                    /\ ~marker
                    /\ ResetPersisted(procs[p])
                    /\ LET n == LoginAfterReset(procs[p])
                       IN /\ n.pr.res.kind \notin {"error", "totpSessionId"}
                          /\ n.pr.pc = "done" =>
                                /\ n.pr.res.kind = "sessionId"
                                /\ cacheGet(n.st.cache, sessionKey(n.pr.res.id))
                                      = toString(procs[p].user[1].id)
      ]_vars

C25_Witness ==
    \E p \in Procs :
        LET r == procs[p] IN
        /\ Succeeded(p, "changeOperatorPassword")
        /\ r.user[1].totpEnabled
        /\ ~marker
        /\ ResetPersisted(r)
        /\ LoginAfterReset(r).pr.res.kind = "sessionId"

\* what register and changeUsername make of a username before they store it
normalized(username) == toLowerCase(trim(username))

(***************************************************************************)
(* C26: in every reachable state, under any interleaving of the handlers,  *)
(* every stored username is its own trimmed and lower-cased form and no    *)
(* two rows hold the same username; no step changes the id of a row or     *)
(* removes a row; the username register and changeUsername store is the    *)
(* normalized form of the one they were given, and their lookup rejects a  *)
(* normalized username that a row already holds.                           *)
(***************************************************************************)
C26_UsernamesNormalizedUniqueIdsStable ==
    [][ /\ \A i \in 1..Len(users') :
              /\ users'[i].username = normalized(users'[i].username)
              /\ \A j \in 1..Len(users') : users'[j].username = users'[i].username => j = i
        /\ \A i \in 1..Len(users) : i <= Len(users') /\ users'[i].id = users[i].id
        /\ \A i \in 1..Len(users') : users'[i].id = i
        /\ \A p \in Procs :
              LET r == procs[p] IN
              /\ (r.pc = "register:228" /\ procs'[p] # r /\ Len(users') > Len(users)) =>
                    users'[Len(users')].username = normalized(r.arg.username)
              /\ (r.op = "changeUsername" /\ procs'[p] # r
                  /\ \E i \in 1..Len(users) : users'[i].username # users[i].username) =>
                    /\ r.pc = "changeUsername:416"
                    /\ users' = updateUser(users, r.user[1].id,
                                           [username |-> normalized(r.arg.newUsername)])
              /\ (r.pc \in {"register:220", "changeUsername:410"} /\ procs'[p] # r
                  /\ \E i \in 1..Len(users) :
                        users[i].username = normalized(IF r.op = "register" THEN r.arg.username
                                                       ELSE r.arg.newUsername)) =>
                    /\ procs'[p].pc = "done"
                    /\ procs'[p].res.err = "user-already-exists"
                    /\ users' = users
      ]_vars

C26_Witness ==
    /\ Len(users) = 2
    /\ \E p \in Procs :
          /\ Succeeded(p, "changeUsername")
          /\ procs[p].arg.newUsername = UaRaw
          /\ users[procs[p].arg.userId].username = Ua

(***************************************************************************)
(* C27: a changeUsername (outside demo mode) of an existing user with the  *)
(* correct password and a new username that trims and lower-cases to the   *)
(* user's current one fails with user-already-exists; the user table and   *)
(* the cache, and with it every session, are as they were.                 *)
(***************************************************************************)
C27_OwnUsernameRejected ==
    \A p \in Procs :
        LET r == procs[p]
            before == getUserById(r.pre.users, r.arg.userId)
        IN ( /\ Finished(p, "changeUsername")
             /\ ~r.pre.demoMode
             /\ before # <<>>
             /\ argon2verify(before[1].password, r.arg.password)
             /\ normalized(r.arg.newUsername) = before[1].username ) =>
               /\ Failed(p, "changeUsername", "user-already-exists")
               /\ users = r.pre.users
               /\ cache = r.pre.cache
               /\ SessionsOf(cache, r.arg.userId) = SessionsOf(r.pre.cache, r.arg.userId)

C27_Witness ==
    \E p \in Procs :
        LET r == procs[p] IN
        /\ Failed(p, "changeUsername", "user-already-exists")
        /\ r.arg.newUsername = UaRaw
        /\ users[r.arg.userId].username = Ua
        /\ argon2verify(users[r.arg.userId].password, r.arg.password)
        /\ SessionsOf(cache, r.arg.userId) # {}

\* the first sentence of C28: what a setSettings call does to the settings
\* file, the file-config cache and the in-memory config
SetSettingsGuarded ==
    LET pre == out.pre
        post == out.post
        parsed == settingsSchema(out.arg)
        demo == truthy(pre.config, "demoMode")
    IN out.op = "setSettings" =>
        /\ demo => (out.kind = "throw" /\ post = pre /\ ~out.wrote)
        /\ (~demo /\ ~parsed.success) => (out.kind = "return" /\ post = pre /\ ~out.wrote)
        /\ (post # pre \/ out.wrote) => (~demo /\ parsed.success)
        /\ (~demo /\ parsed.success) =>
              /\ out.wrote
              /\ post.settingsFile = <<parsed.data>>
              /\ out.kind = "return" =>
                    /\ \A k \in DOMAIN parsed.data : post.config[k] = parsed.data[k]
                    /\ \A k \in DOMAIN pre.config \ (DOMAIN parsed.data \cup {"postgresPort"}) :
                          post.config[k] = pre.config[k]

\* the call before was a resetCache, or a setSettings that wrote the file and returned
AfterResetCache == out.prev.op = "resetCache"

AfterSetSettings == out.prev.op = "setSettings" /\ out.prev.wrote /\ out.prev.kind = "return"

(***************************************************************************)
(* C28, as the claim has it: SetSettingsGuarded, and a getConfig that      *)
(* comes next after a resetCache or after a setSettings that succeeded     *)
(* reads settings.json.                                                    *)
(***************************************************************************)
C28_NextGetConfigRereads ==
    /\ SetSettingsGuarded
    /\ (out.op = "getConfig" /\ (AfterResetCache \/ AfterSetSettings)) => out.read

(***************************************************************************)
(* C28, amended: SetSettingsGuarded; a getConfig that comes next after a   *)
(* resetCache reads settings.json; a setSettings that gets to write the    *)
(* file reads it back itself (its own getConfig call, line 168) and leaves *)
(* what it read in the cache, so that a getConfig that comes next after a  *)
(* successful setSettings takes the cached value, which is the settings    *)
(* just written, and reads the file only once cacheTimeout has passed      *)
(* since the setSettings.                                                  *)
(***************************************************************************)
C28_SetSettingsRereadsItself ==
    /\ SetSettingsGuarded
    /\ (out.op = "getConfig" /\ AfterResetCache) => out.read
    /\ (out.op = "setSettings" /\ out.wrote) =>
          /\ out.read
          /\ out.post.fileConfigCache = <<settingsSchema(out.arg).data>>
          /\ out.post.cacheTime = out.pre.now
    /\ (out.op = "getConfig" /\ AfterSetSettings) =>
          /\ out.read <=> out.pre.now - out.pre.cacheTime >= cacheTimeout
          /\ ~out.read => /\ out.pre.fileConfigCache # <<>>
                          /\ \A k \in DOMAIN out.pre.fileConfigCache[1] :
                                out.conf[k] = out.pre.fileConfigCache[1][k]

C28_Witness ==
    /\ out.op = "getConfig"
    /\ AfterSetSettings
    /\ ~out.read
    /\ "domain" \in DOMAIN out.conf /\ out.conf["domain"] = Str("example.com")
    /\ settingsFile = << [domain |-> Str("example.com")] >>

====
